---- MODULE Spec2Model ----
(***************************************************************************)
(* Worker supervision of the CV API microservice.                          *)
(*                                                                         *)
(* Two cluster primaries exist in the repository:                          *)
(*   - the environment-based supervisor (src/unnamed/part_000, the         *)
(*     JavaScript that follows the SQL schema, lines 97-164): 1 worker     *)
(*     unless NODE_ENV is 'production', 2 in production, restart on exit   *)
(*     in production only, SIGTERM handler with a 10 s drain timer;        *)
(*   - the per-CPU supervisor (src/unnamed/part_001): one worker per CPU,  *)
(*     unconditional restart, no signal handler.                           *)
(*                                                                         *)
(* The primary is a single-threaded event loop: every handler (exit        *)
(* event, SIGTERM, timer callback) runs to completion, so each is one      *)
(* action.  Workers are separate OS processes: a worker dies in a step of  *)
(* its own, and the primary learns of it later through the 'exit' event.   *)
(* A signal sent with worker.kill() is delivered asynchronously: sending   *)
(* it and the death of the worker are different steps.                     *)
(*                                                                         *)
(* Three further parts are modelled, each with a specification of its own  *)
(* over its own variables (the other variables stay at their initial       *)
(* values):                                                                *)
(*   - FaultSpec: the primaries in an environment where cluster.fork or a  *)
(*     call inside the exit handler can raise an error;                    *)
(*   - WorkerSpec: the shutdown of one worker (src/server.js:260-336);     *)
(*   - ApiSpec: the API key middleware and the route mounting              *)
(*     (src/server.js:173-175 and 350-410);                                *)
(*   - HealthSpec: one GET / of the health router                          *)
(*     (src/routes/health.routes.js:66-148);                               *)
(*   - UsersSpec: one POST / of the users router                           *)
(*     (src/routes/health.routes.js:541-567) with the user service         *)
(*     (src/services/lead.service.js:14-31).                               *)
(***************************************************************************)
EXTENDS Integers, FiniteSets, Sequences, TLC

\* ---- bounds of the model ----
MaxCPUs == 2        \* os.cpus().length ranges over 1..MaxCPUs
MaxCrashes == 3     \* worker deaths while the primary is up
MaxSignals == 2     \* SIGTERMs delivered to the primary
MaxConns == 3       \* connections open on one worker
MaxShutdownSignals == 3 \* SIGTERM/SIGINT delivered to one worker

VARIABLES
    variant,    \* "env" = part_000, "cpu" = part_001
    NODE_ENV,   \* process.env.NODE_ENV
    numCPUs,    \* os.cpus().length
    sup,        \* primary process: "boot", "up", "exit0" (process.exit(0) or
                \* empty event loop), "exit1" (uncaught error), "killed"
                \* (default action of SIGTERM)
    workers,    \* ids in cluster.workers: forked, 'exit' not yet emitted
    alive,      \* ids of the worker processes that are running
    forks,      \* number of cluster.fork() calls so far; ids are 1..forks
    termSent,   \* termSent[w]: kill('SIGTERM') calls made on worker w
    killSent,   \* killSent[w]: kill('SIGKILL') calls made on worker w
    timers,     \* pending drain timers (setTimeout ... 10000)
    nsig,       \* SIGTERMs the primary has received
    exitsRunning, \* 'exit' events handled before any SIGTERM was received
    graceful,   \* workers that terminated after the primary had sent them
                \* SIGTERM and no SIGKILL
    fault,      \* error raised in the primary: "none", "startFork" (a
                \* cluster.fork of the start loop), "handler" (inside the
                \* 'exit' handler)
    \* ---- one worker (src/server.js) ----
    server,     \* the HTTP server: "listening", "closing", "closed"
    connections, \* connections open on the server
    forceTimers, \* pending force-close timers (setTimeout ... 30000)
    received,   \* the signals the worker has received, in order
    workerExit, \* "none" while the worker runs, else "code0" or "code1"
    \* ---- one request (src/server.js) ----
    API_KEY,    \* process.env.API_KEY
    req,        \* the request: route, x-api-key header, apikey query value
    response,   \* "pending", "401", "500", or the router that handled it
    \* ---- one GET / of the health router ----
    healthPc,   \* "none", "start", "dbChecked", "emailChecked", "done"
    uptime,     \* process.uptime(), in whole seconds
    dbHealth,   \* what dbHealthCheck() resolved with, NoResult before
    emailHealth, \* what emailHealthCheck() resolved with, NoResult before
    healthReply, \* the response: status code and body, NoReply before
    \* ---- one POST / of the users router ----
    usersPc,    \* "none", "start", "repository", "settled", "done"
    userData,   \* req.body
    createResult, \* how the promise of userService.createUser settled
    usersReply  \* the response: status code and body, NoReply before

primaryVars == <<variant, NODE_ENV, numCPUs, sup, workers, alive, forks,
                 termSent, killSent, timers, nsig, exitsRunning, graceful,
                 fault>>
workerVars == <<server, connections, forceTimers, received, workerExit>>
healthVars == <<healthPc, uptime, dbHealth, emailHealth, healthReply>>
usersVars == <<usersPc, userData, createResult, usersReply>>
requestVars == <<API_KEY, req, response, healthVars, usersVars>>

vars == <<primaryVars, workerVars, requestVars>>

\* part_000:108
isDevelopment == NODE_ENV # "production"

\* Variant of numWorkers: the two branches of part_000:116 are swapped.
numWorkersSwapped ==
    IF variant = "cpu" THEN numCPUs
    ELSE IF isDevelopment THEN 2 ELSE 1

\* part_000:116 and part_001:15
numWorkers ==
    IF variant = "cpu" THEN numCPUs
    ELSE IF isDevelopment THEN 1 ELSE 2

\* The lifecycle phase of the specification, read off the primary's state:
\* running until a SIGTERM is received, stopped once the process is gone.
Phase ==
    IF sup \in {"exit0", "exit1", "killed"} THEN "stopped"
    ELSE IF nsig > 0 THEN "draining"
    ELSE "running"

\* cluster.fork(): a new worker with a fresh id, registered in
\* cluster.workers and running.
ForkInto(S, n) == S \cup {n}

\* JavaScript values as far as the handlers tell them apart: undefined,
\* null, a string, a number, an array of strings (a repeated query
\* parameter).
Undefined == [kind |-> "undefined", val |-> <<>>]
Null == [kind |-> "null", val |-> <<>>]
Num(n) == [kind |-> "number", val |-> <<n>>]
Str(s) == [kind |-> "string", val |-> <<s>>]
Arr(q) == [kind |-> "array", val |-> q]

\* src/server.js:304: a worker that has started listening.
WorkerInit ==
    /\ server = "listening"
    /\ connections = 0
    /\ forceTimers = 0
    /\ received = <<>>
    /\ workerExit = "none"

\* A value that is not there yet: the result of a check that has not
\* resolved, a promise that has not settled, a response that was not sent.
NoResult == [kind |-> "none"]
NoReply == [code |-> 0]

\* No request to the health router is under way.
NoHealthRequest ==
    /\ healthPc = "none"
    /\ uptime = 0
    /\ dbHealth = NoResult
    /\ emailHealth = NoResult
    /\ healthReply = NoReply

\* No request to the users router is under way.
NoUsersRequest ==
    /\ usersPc = "none"
    /\ userData = [email |-> "", first_name |-> ""]
    /\ createResult = NoResult
    /\ usersReply = NoReply

\* No request passes the route mounting of src/server.js.
NoApiRequest ==
    /\ API_KEY = Undefined
    /\ req = [route |-> "none", header |-> Undefined, query |-> Undefined]
    /\ response = "pending"

\* No request is under way.
NoRequest ==
    /\ NoApiRequest
    /\ NoHealthRequest
    /\ NoUsersRequest

Init ==
    /\ WorkerInit
    /\ NoRequest
    /\ fault = "none"
    /\ variant \in {"env", "cpu"}
    /\ NODE_ENV \in {"production", "development", "unset"}
    /\ numCPUs \in 1..MaxCPUs
    /\ sup = "boot"
    /\ workers = {}
    /\ alive = {}
    /\ forks = 0
    /\ termSent = <<>>
    /\ killSent = <<>>
    /\ timers = 0
    /\ nsig = 0
    /\ exitsRunning = 0
    /\ graceful = {}

\* Variant of Start: the loop runs from 1 instead of 0 and forks one worker
\* less.
StartOneShort ==
    /\ sup = "boot"
    /\ sup' = "up"
    /\ forks' = numWorkers - 1
    /\ workers' = 1..(numWorkers - 1)
    /\ alive' = 1..(numWorkers - 1)
    /\ termSent' = [w \in 1..(numWorkers - 1) |-> 0]
    /\ killSent' = [w \in 1..(numWorkers - 1) |-> 0]
    /\ UNCHANGED <<variant, NODE_ENV, numCPUs, timers, nsig, exitsRunning,
                   graceful>>
    /\ UNCHANGED <<fault, workerVars, requestVars>>

\* part_000:119-123, part_001:15-17: the synchronous fork loop.
Start ==
    /\ sup = "boot"
    /\ sup' = "up"
    /\ forks' = numWorkers
    /\ workers' = 1..numWorkers
    /\ alive' = 1..numWorkers
    /\ termSent' = [w \in 1..numWorkers |-> 0]
    /\ killSent' = [w \in 1..numWorkers |-> 0]
    /\ UNCHANGED <<variant, NODE_ENV, numCPUs, timers, nsig, exitsRunning,
                   graceful>>
    /\ UNCHANGED <<fault, workerVars, requestVars>>

\* A worker process terminates (crash, process.exit in server.js after a
\* SIGTERM, or death by SIGKILL).  While the primary is up the number of
\* deaths is capped so that every replacement fork stays possible.
WorkerDies(w) ==
    /\ w \in alive
    /\ sup = "up" => forks - Cardinality(alive) < MaxCrashes
    /\ alive' = alive \ {w}
    /\ graceful' = IF termSent[w] >= 1 /\ killSent[w] = 0
                     THEN graceful \cup {w} ELSE graceful
    /\ UNCHANGED <<variant, NODE_ENV, numCPUs, sup, workers, forks,
                   termSent, killSent, timers, nsig, exitsRunning>>
    /\ UNCHANGED <<fault, workerVars, requestVars>>

\* Variant of Restarts: the production test of part_000:129 is dropped, so
\* that only the per-CPU primary restarts.
RestartsCpuOnly == variant = "cpu"

\* Variant of Restarts: the test of part_000:129 is applied by both
\* primaries.
RestartsProductionOnly == ~isDevelopment

\* Variant of Restarts: the exit handler forks in every mode.
RestartsAlways == TRUE

\* Whether the exit handler forks a replacement:
\* part_000:129 (production only), part_001:22 (always).
Restarts == variant = "cpu" \/ ~isDevelopment

\* Variant of OnWorkerExit: the handler logs the death and forks nothing.
OnWorkerExitNoFork(w) ==
    /\ sup = "up"
    /\ w \in workers \ alive
    /\ exitsRunning' = IF nsig = 0 THEN exitsRunning + 1 ELSE exitsRunning
    /\ workers' = workers \ {w}
    /\ UNCHANGED <<variant, NODE_ENV, numCPUs, sup, timers, nsig,
                   forks, alive, termSent, killSent, graceful>>
    /\ UNCHANGED <<fault, workerVars, requestVars>>

\* Variant of OnWorkerExit: the drain is a blocking wait, no exit event is
\* handled while a drain timer is pending.
OnWorkerExitBlockedInDrain(w) ==
    /\ sup = "up"
    /\ timers = 0
    /\ w \in workers \ alive
    /\ exitsRunning' = IF nsig = 0 THEN exitsRunning + 1 ELSE exitsRunning
    /\ IF Restarts
         THEN /\ forks' = forks + 1
              /\ workers' = ForkInto(workers \ {w}, forks + 1)
              /\ alive' = ForkInto(alive, forks + 1)
              /\ termSent' = termSent \o <<0>>
              /\ killSent' = killSent \o <<0>>
         ELSE /\ workers' = workers \ {w}
              /\ UNCHANGED <<forks, alive, termSent, killSent>>
    /\ UNCHANGED <<variant, NODE_ENV, numCPUs, sup, timers, nsig, graceful>>
    /\ UNCHANGED <<fault, workerVars, requestVars>>

\* Variant of OnWorkerExit: the replacement takes over the handle of the
\* dead worker instead of getting a new one.
OnWorkerExitReusesHandle(w) ==
    /\ sup = "up"
    /\ w \in workers \ alive
    /\ exitsRunning' = IF nsig = 0 THEN exitsRunning + 1 ELSE exitsRunning
    /\ IF Restarts
         THEN /\ alive' = alive \cup {w}
              /\ termSent' = [termSent EXCEPT ![w] = 0]
              /\ killSent' = [killSent EXCEPT ![w] = 0]
              /\ UNCHANGED <<forks, workers>>
         ELSE /\ workers' = workers \ {w}
              /\ UNCHANGED <<forks, alive, termSent, killSent>>
    /\ UNCHANGED <<variant, NODE_ENV, numCPUs, sup, timers, nsig, graceful>>
    /\ UNCHANGED <<fault, workerVars, requestVars>>

\* Variant of OnWorkerExit: the handler forks two workers for one exit.
OnWorkerExitForksTwice(w) ==
    /\ sup = "up"
    /\ w \in workers \ alive
    /\ exitsRunning' = IF nsig = 0 THEN exitsRunning + 1 ELSE exitsRunning
    /\ IF Restarts
         THEN /\ forks' = forks + 2
              /\ workers' = ForkInto(ForkInto(workers \ {w}, forks + 1),
                                     forks + 2)
              /\ alive' = ForkInto(ForkInto(alive, forks + 1), forks + 2)
              /\ termSent' = termSent \o <<0, 0>>
              /\ killSent' = killSent \o <<0, 0>>
         ELSE /\ workers' = workers \ {w}
              /\ UNCHANGED <<forks, alive, termSent, killSent>>
    /\ UNCHANGED <<variant, NODE_ENV, numCPUs, sup, timers, nsig, graceful>>
    /\ UNCHANGED <<fault, workerVars, requestVars>>

\* Variant of OnWorkerExit: while draining, the handler sends SIGTERM to
\* the replacement it has just forked.
OnWorkerExitSignalsReplacement(w) ==
    /\ sup = "up"
    /\ w \in workers \ alive
    /\ exitsRunning' = IF nsig = 0 THEN exitsRunning + 1 ELSE exitsRunning
    /\ IF Restarts
         THEN /\ forks' = forks + 1
              /\ workers' = ForkInto(workers \ {w}, forks + 1)
              /\ alive' = ForkInto(alive, forks + 1)
              /\ termSent' = termSent \o <<IF nsig > 0 THEN 1 ELSE 0>>
              /\ killSent' = killSent \o <<0>>
         ELSE /\ workers' = workers \ {w}
              /\ UNCHANGED <<forks, alive, termSent, killSent>>
    /\ UNCHANGED <<variant, NODE_ENV, numCPUs, sup, timers, nsig, graceful>>
    /\ UNCHANGED <<fault, workerVars, requestVars>>

\* part_000:126-134, part_001:20-23: cluster.on('exit').  Node removes the
\* dead worker from cluster.workers before emitting the event.
OnWorkerExit(w) ==
    /\ sup = "up"
    /\ w \in workers \ alive
    /\ exitsRunning' = IF nsig = 0 THEN exitsRunning + 1 ELSE exitsRunning
    /\ IF Restarts
         THEN /\ forks' = forks + 1
              /\ workers' = ForkInto(workers \ {w}, forks + 1)
              /\ alive' = ForkInto(alive, forks + 1)
              /\ termSent' = termSent \o <<0>>
              /\ killSent' = killSent \o <<0>>
         ELSE /\ workers' = workers \ {w}
              /\ UNCHANGED <<forks, alive, termSent, killSent>>
    /\ UNCHANGED <<variant, NODE_ENV, numCPUs, sup, timers, nsig, graceful>>
    /\ UNCHANGED <<fault, workerVars, requestVars>>

\* Variant of ReceiveSIGTERM: the broadcast loop is skipped, only the timer
\* is scheduled.
ReceiveSIGTERMNoBroadcast ==
    /\ variant = "env"
    /\ sup = "up"
    /\ nsig < MaxSignals
    /\ nsig' = nsig + 1
    /\ timers' = timers + 1
    /\ UNCHANGED <<variant, NODE_ENV, numCPUs, sup, workers, alive, forks,
                   termSent, killSent, exitsRunning, graceful>>
    /\ UNCHANGED <<fault, workerVars, requestVars>>

\* Variant of ReceiveSIGTERM: the broadcast is made but no drain timer is
\* scheduled.
ReceiveSIGTERMNoTimer ==
    /\ variant = "env"
    /\ sup = "up"
    /\ nsig < MaxSignals
    /\ nsig' = nsig + 1
    /\ termSent' = [w \in DOMAIN termSent |->
                      IF w \in workers THEN termSent[w] + 1 ELSE termSent[w]]
    /\ UNCHANGED <<variant, NODE_ENV, numCPUs, sup, workers, alive, forks,
                   killSent, timers, exitsRunning, graceful>>
    /\ UNCHANGED <<fault, workerVars, requestVars>>

\* Variant of ReceiveSIGTERM: the handler sends SIGKILL right after the
\* SIGTERM instead of leaving it to the timer.
ReceiveSIGTERMKillsAtOnce ==
    /\ variant = "env"
    /\ sup = "up"
    /\ nsig < MaxSignals
    /\ nsig' = nsig + 1
    /\ termSent' = [w \in DOMAIN termSent |->
                      IF w \in workers THEN termSent[w] + 1 ELSE termSent[w]]
    /\ killSent' = [w \in DOMAIN killSent |->
                      IF w \in workers THEN killSent[w] + 1 ELSE killSent[w]]
    /\ timers' = timers + 1
    /\ UNCHANGED <<variant, NODE_ENV, numCPUs, sup, workers, alive, forks,
                   exitsRunning, graceful>>
    /\ UNCHANGED <<fault, workerVars, requestVars>>

\* part_000:137-151: process.on('SIGTERM'): SIGTERM to every worker in
\* cluster.workers, then a drain timer is scheduled.
ReceiveSIGTERM ==
    /\ variant = "env"
    /\ sup = "up"
    /\ nsig < MaxSignals
    /\ nsig' = nsig + 1
    /\ termSent' = [w \in DOMAIN termSent |->
                      IF w \in workers THEN termSent[w] + 1 ELSE termSent[w]]
    /\ timers' = timers + 1
    /\ UNCHANGED <<variant, NODE_ENV, numCPUs, sup, workers, alive, forks,
                   killSent, exitsRunning, graceful>>
    /\ UNCHANGED <<fault, workerVars, requestVars>>

\* Variant of DrainTimeout: the callback kills the workers but does not
\* call process.exit, so a later timer finds the primary still up.
DrainTimeoutNoExit ==
    /\ sup = "up"
    /\ timers > 0
    /\ timers' = timers - 1
    /\ killSent' = [w \in DOMAIN killSent |->
                      IF w \in workers THEN killSent[w] + 1 ELSE killSent[w]]
    /\ UNCHANGED <<variant, NODE_ENV, numCPUs, sup, workers, alive, forks,
                   termSent, nsig, exitsRunning, graceful>>
    /\ UNCHANGED <<fault, workerVars, requestVars>>

\* Variant of DrainTimeout: the callback exits without the SIGKILL loop.
DrainTimeoutNoKill ==
    /\ sup = "up"
    /\ timers > 0
    /\ timers' = timers - 1
    /\ sup' = "exit0"
    /\ UNCHANGED <<variant, NODE_ENV, numCPUs, workers, alive, forks,
                   termSent, killSent, nsig, exitsRunning, graceful>>
    /\ UNCHANGED <<fault, workerVars, requestVars>>

\* Variant of DrainTimeout: the callback ends with process.exit(1).
DrainTimeoutExit1 ==
    /\ sup = "up"
    /\ timers > 0
    /\ timers' = timers - 1
    /\ killSent' = [w \in DOMAIN killSent |->
                      IF w \in workers THEN killSent[w] + 1 ELSE killSent[w]]
    /\ sup' = "exit1"
    /\ UNCHANGED <<variant, NODE_ENV, numCPUs, workers, alive, forks,
                   termSent, nsig, exitsRunning, graceful>>
    /\ UNCHANGED <<fault, workerVars, requestVars>>

\* part_000:144-150: the timer callback: SIGKILL to every worker still in
\* cluster.workers, then process.exit(0).
DrainTimeout ==
    /\ sup = "up"
    /\ timers > 0
    /\ timers' = timers - 1
    /\ killSent' = [w \in DOMAIN killSent |->
                      IF w \in workers THEN killSent[w] + 1 ELSE killSent[w]]
    /\ sup' = "exit0"
    /\ UNCHANGED <<variant, NODE_ENV, numCPUs, workers, alive, forks,
                   termSent, nsig, exitsRunning, graceful>>
    /\ UNCHANGED <<fault, workerVars, requestVars>>

\* part_001 installs no SIGTERM handler: the signal's default action
\* terminates the primary.
DefaultSIGTERM ==
    /\ variant = "cpu"
    /\ sup = "up"
    /\ nsig < MaxSignals
    /\ nsig' = nsig + 1
    /\ sup' = "killed"
    /\ UNCHANGED <<variant, NODE_ENV, numCPUs, workers, alive, forks,
                   termSent, killSent, timers, exitsRunning, graceful>>
    /\ UNCHANGED <<fault, workerVars, requestVars>>

\* The primary holds no handle any more (no worker in cluster.workers, no
\* timer pending; signal listeners do not keep the event loop alive): the
\* process ends with code 0.  Only the development primary of part_000 can
\* get here, since the other two fork a replacement for every exit.
EventLoopEmpty ==
    /\ sup = "up"
    /\ workers = {}
    /\ timers = 0
    /\ sup' = "exit0"
    /\ UNCHANGED <<variant, NODE_ENV, numCPUs, workers, alive, forks,
                   termSent, killSent, timers, nsig, exitsRunning, graceful>>
    /\ UNCHANGED <<fault, workerVars, requestVars>>

Next ==
    \/ Start
    \/ \E w \in alive : WorkerDies(w)
    \/ \E w \in workers : OnWorkerExit(w)
    \/ ReceiveSIGTERM
    \/ DrainTimeout
    \/ DefaultSIGTERM
    \/ EventLoopEmpty

Spec == Init /\ [][Next]_vars

\* The event loop of the primary dispatches every pending event: a pending
\* 'exit' event is handled, a pending timer fires, an empty loop ends the
\* process.  Nothing obliges a worker to die or a signal to arrive.
LiveSpec ==
    /\ Spec
    /\ WF_vars(Start)
    /\ WF_vars(\E w \in workers : OnWorkerExit(w))
    /\ WF_vars(DrainTimeout)
    /\ WF_vars(EventLoopEmpty)

\* ---------------------------------------------------------------------
\* The primaries when forking or logging can fail
\* ---------------------------------------------------------------------

\* part_000:119-123, part_001:15-17: a cluster.fork() of the start loop
\* raises an error after k workers were forked.  The loop is not inside a
\* try block and the primary installs no 'uncaughtException' or 'error'
\* listener, so the error ends the process with Node's exit code 1.
StartForkFails(k) ==
    /\ sup = "boot"
    /\ k \in 0..(numWorkers - 1)
    /\ fault' = "startFork"
    /\ sup' = "exit1"
    /\ forks' = k
    /\ workers' = 1..k
    /\ alive' = 1..k
    /\ termSent' = [w \in 1..k |-> 0]
    /\ killSent' = [w \in 1..k |-> 0]
    /\ UNCHANGED <<variant, NODE_ENV, numCPUs, timers, nsig, exitsRunning,
                   graceful>>
    /\ UNCHANGED <<workerVars, requestVars>>

\* Variant of OnWorkerExitThrows: the body of the handler is wrapped in
\* try/catch, the error is swallowed and the primary stays up.
OnWorkerExitSwallows(w) ==
    /\ sup = "up"
    /\ w \in workers \ alive
    /\ fault' = "handler"
    /\ workers' = workers \ {w}
    /\ UNCHANGED <<variant, NODE_ENV, numCPUs, sup, alive, forks, termSent,
                   killSent, timers, nsig, exitsRunning, graceful>>
    /\ UNCHANGED <<workerVars, requestVars>>

\* part_000:126-134, part_001:20-23: a call inside the 'exit' handler
\* (console.log, cluster.fork) raises an error.  The handler has no
\* try/catch: the error leaves it, nothing is forked, and the uncaught
\* error ends the primary with exit code 1.
OnWorkerExitThrows(w) ==
    /\ sup = "up"
    /\ w \in workers \ alive
    /\ fault' = "handler"
    /\ workers' = workers \ {w}
    /\ sup' = "exit1"
    /\ UNCHANGED <<variant, NODE_ENV, numCPUs, alive, forks, termSent,
                   killSent, timers, nsig, exitsRunning, graceful>>
    /\ UNCHANGED <<workerVars, requestVars>>

FaultNext ==
    \/ Next
    \/ \E k \in 0..MaxCPUs : StartForkFails(k)
    \/ \E w \in workers : OnWorkerExitThrows(w)

FaultSpec == Init /\ [][FaultNext]_vars

\* ---------------------------------------------------------------------
\* One worker: the shutdown of src/server.js
\* ---------------------------------------------------------------------

\* The primary, left aside by the worker and the request specifications.
PrimaryIdle ==
    /\ variant = "env"
    /\ NODE_ENV = "unset"
    /\ numCPUs = 1
    /\ sup = "boot"
    /\ workers = {}
    /\ alive = {}
    /\ forks = 0
    /\ termSent = <<>>
    /\ killSent = <<>>
    /\ timers = 0
    /\ nsig = 0
    /\ exitsRunning = 0
    /\ graceful = {}
    /\ fault = "none"

WorkerSpecInit == PrimaryIdle /\ WorkerInit /\ NoRequest

\* A client connects; a server that was closed accepts nothing.
Accept ==
    /\ workerExit = "none"
    /\ server = "listening"
    /\ connections < MaxConns
    /\ connections' = connections + 1
    /\ UNCHANGED <<server, forceTimers, received, workerExit>>
    /\ UNCHANGED <<primaryVars, requestVars>>

\* A connection ends.
ConnectionEnds ==
    /\ workerExit = "none"
    /\ connections > 0
    /\ connections' = connections - 1
    /\ UNCHANGED <<server, forceTimers, received, workerExit>>
    /\ UNCHANGED <<primaryVars, requestVars>>

\* Variant of gracefulShutdown: no force-close timer is set.
gracefulShutdownNoTimer(signal) ==
    /\ workerExit = "none"
    /\ Len(received) < MaxShutdownSignals
    /\ received' = Append(received, signal)
    /\ server' = IF server = "listening" THEN "closing" ELSE server
    /\ UNCHANGED <<connections, forceTimers, workerExit>>
    /\ UNCHANGED <<primaryVars, requestVars>>

\* src/server.js:261-274 and 335-336: gracefulShutdown, the listener of
\* SIGTERM and SIGINT: server.close() stops the listening, and a force-close
\* timer is set.
gracefulShutdown(signal) ==
    /\ workerExit = "none"
    /\ Len(received) < MaxShutdownSignals
    /\ received' = Append(received, signal)
    /\ server' = IF server = "listening" THEN "closing" ELSE server
    /\ forceTimers' = forceTimers + 1
    /\ UNCHANGED <<connections, workerExit>>
    /\ UNCHANGED <<primaryVars, requestVars>>

\* src/server.js:264-267: the callback of server.close: the server has
\* stopped listening and its last connection has ended; process.exit(0).
ServerClosed ==
    /\ workerExit = "none"
    /\ server = "closing"
    /\ connections = 0
    /\ server' = "closed"
    /\ workerExit' = "code0"
    /\ UNCHANGED <<connections, forceTimers, received>>
    /\ UNCHANGED <<primaryVars, requestVars>>

\* src/server.js:270-273: the force-close timer fires; process.exit(1).
ForceClose ==
    /\ workerExit = "none"
    /\ forceTimers > 0
    /\ forceTimers' = forceTimers - 1
    /\ workerExit' = "code1"
    /\ UNCHANGED <<server, connections, received>>
    /\ UNCHANGED <<primaryVars, requestVars>>

WorkerNext ==
    \/ Accept
    \/ ConnectionEnds
    \/ \E signal \in {"SIGTERM", "SIGINT"} : gracefulShutdown(signal)
    \/ ServerClosed
    \/ ForceClose

WorkerSpec == WorkerSpecInit /\ [][WorkerNext]_vars

\* The event loop of the worker runs the close callback once the server
\* has closed and fires a pending timer.  Nothing obliges a connection to
\* end.
WorkerLiveSpec ==
    /\ WorkerSpec
    /\ WF_vars(ServerClosed)
    /\ WF_vars(ForceClose)

\* ---------------------------------------------------------------------
\* One request: route mounting and API key middleware of src/server.js
\* ---------------------------------------------------------------------

\* JavaScript truthiness of a value: undefined and '' are falsy.
Truthy(v) == v.kind = "array" \/ (v.kind = "string" /\ v.val # <<"">>)

\* a !== b against a string b: an array never equals a string.
StrictNotEqual(a, b) == ~(a.kind = b.kind /\ a.kind = "string" /\ a.val = b.val)

\* src/server.js:350-410: validateApiKey: "next" when the route handler
\* is reached, else the status of the response.  For a key that is not a
\* string, apiKey.substring (line 384) raises a TypeError, which the catch
\* block answers with 500.
validateApiKey(request, validApiKey) ==
    LET apiKey == IF Truthy(request.header) THEN request.header
                  ELSE request.query
    IN  IF ~Truthy(validApiKey) THEN "500"
        ELSE IF ~Truthy(apiKey) THEN "401"
        ELSE IF StrictNotEqual(apiKey, validApiKey)
               THEN IF apiKey.kind = "string" THEN "401" ELSE "500"
        ELSE "next"

\* The values process.env.API_KEY, the x-api-key header and the apikey
\* query parameter are drawn from.
EnvKeys == {Undefined, Str(""), Str("k1")}
HeaderKeys == {Undefined, Str(""), Str("k1"), Str("k2")}
QueryKeys == HeaderKeys \cup {Arr(<<"k1">>), Arr(<<"k1", "k2">>)}

ApiSpecInit ==
    /\ PrimaryIdle
    /\ WorkerInit
    /\ API_KEY \in EnvKeys
    /\ req \in [route : {"health", "projects", "contact"},
                 header : HeaderKeys, query : QueryKeys]
    /\ response = "pending"
    /\ NoHealthRequest
    /\ NoUsersRequest

\* src/server.js:173: the health router, mounted without a key check.
HealthRoute ==
    /\ response = "pending"
    /\ req.route = "health"
    /\ response' = "health"
    /\ UNCHANGED <<API_KEY, req, healthVars, usersVars>>
    /\ UNCHANGED <<primaryVars, workerVars>>

\* src/server.js:174: the projects router behind validateApiKey.
ProjectsRoute ==
    /\ response = "pending"
    /\ req.route = "projects"
    /\ response' = LET r == validateApiKey(req, API_KEY)
                   IN  IF r = "next" THEN "projects" ELSE r
    /\ UNCHANGED <<API_KEY, req, healthVars, usersVars>>
    /\ UNCHANGED <<primaryVars, workerVars>>

\* src/server.js:175: the contact router, mounted without a key check.
ContactRoute ==
    /\ response = "pending"
    /\ req.route = "contact"
    /\ response' = "contact"
    /\ UNCHANGED <<API_KEY, req, healthVars, usersVars>>
    /\ UNCHANGED <<primaryVars, workerVars>>

ApiNext ==
    \/ HealthRoute
    \/ ProjectsRoute
    \/ ContactRoute

ApiSpec == ApiSpecInit /\ [][ApiNext]_vars

\* ---------------------------------------------------------------------
\* One GET / of the health router (src/routes/health.routes.js)
\* ---------------------------------------------------------------------

\* x || null
OrNull(x) == IF Truthy(x) THEN x ELSE Null

\* health.routes.js:73: what dbHealthCheck() resolves with.
DbResults ==
    {[kind |-> "resolved", healthy |-> TRUE, error |-> Undefined]} \cup
    {[kind |-> "resolved", healthy |-> FALSE, error |-> Str(e)] :
        e \in {"connect ECONNREFUSED", "query timeout"}}

\* health.routes.js:73, 135: the messages of the errors dbHealthCheck()
\* rejects with.
DbThrows == {"supabase client not initialised", "fetch failed"}

\* src/config/email.js:77-87: what emailHealthCheck() resolves with; its
\* try/catch turns every failure of transporter.verify() into a result.
EmailResults ==
    {[kind |-> "resolved", healthy |-> TRUE, error |-> Undefined]} \cup
    {[kind |-> "resolved", healthy |-> FALSE, error |-> Str(e)] :
        e \in {"Invalid login", "connect ETIMEDOUT"}}

\* health.routes.js:96: the values of process.uptime(), around the unit
\* boundaries of formatUptime.
Uptimes == {0, 59, 60, 3599, 3600, 86399, 86400, 90061}

\* Variant of overallStatus: a degraded service is answered with 503.
overallStatusDegraded503(db, email) ==
    LET allServicesHealthy == db.healthy /\ email.healthy
        someServicesHealthy == db.healthy \/ email.healthy
    IN  IF allServicesHealthy
          THEN [overallStatus |-> "healthy", statusCode |-> 200]
          ELSE IF someServicesHealthy
                 THEN [overallStatus |-> "degraded", statusCode |-> 503]
                 ELSE [overallStatus |-> "unhealthy", statusCode |-> 503]

\* health.routes.js:79-93: the overall status and the status code.
overallStatus(db, email) ==
    LET allServicesHealthy == db.healthy /\ email.healthy
        someServicesHealthy == db.healthy \/ email.healthy
    IN  IF allServicesHealthy
          THEN [overallStatus |-> "healthy", statusCode |-> 200]
          ELSE IF someServicesHealthy
                 THEN [overallStatus |-> "degraded", statusCode |-> 200]
                 ELSE [overallStatus |-> "unhealthy", statusCode |-> 503]

\* health.routes.js:229-240
getHealthMessage(status) ==
    CASE status = "healthy" -> "CV API Microservice is running normally"
      [] status = "degraded" ->
             "CV API Microservice is running with some issues"
      [] status = "unhealthy" ->
             "CV API Microservice is experiencing critical issues"
      [] OTHER -> "Unknown health status"

\* health.routes.js:242-257
formatUptime(seconds) ==
    LET days == seconds \div 86400
        hours == (seconds % 86400) \div 3600
        minutes == (seconds % 3600) \div 60
        secs == seconds % 60
        h == ToString(hours) \o "h "
        m == ToString(minutes) \o "m "
        sec == ToString(secs) \o "s"
    IN  IF days > 0 THEN ToString(days) \o "d " \o h \o m \o sec
        ELSE IF hours > 0 THEN h \o m \o sec
        ELSE IF minutes > 0 THEN m \o sec
        ELSE sec

\* health.routes.js:108-117: the entry of one service in the body.
serviceEntry(check) ==
    [status |-> IF check.healthy THEN "healthy" ELSE "unhealthy",
     healthy |-> check.healthy,
     error |-> OrNull(check.error)]

HealthSpecInit ==
    /\ PrimaryIdle
    /\ WorkerInit
    /\ NoApiRequest
    /\ NoUsersRequest
    /\ healthPc = "start"
    /\ uptime \in Uptimes
    /\ dbHealth = NoResult
    /\ emailHealth = NoResult
    /\ healthReply = NoReply

\* health.routes.js:73: await dbHealthCheck() resolves.
HealthDbChecked ==
    /\ healthPc = "start"
    /\ \E r \in DbResults : dbHealth' = r
    /\ healthPc' = "dbChecked"
    /\ UNCHANGED <<uptime, emailHealth, healthReply>>
    /\ UNCHANGED <<API_KEY, req, response, usersVars>>
    /\ UNCHANGED <<primaryVars, workerVars>>

\* health.routes.js:73 and 135-147: await dbHealthCheck() rejects and the
\* catch block answers.
HealthCheckThrows ==
    /\ healthPc = "start"
    /\ \E e \in DbThrows :
          healthReply' = [code |-> 503,
                          status |-> "unhealthy",
                          message |-> "Health check failed",
                          error |-> e]
    /\ healthPc' = "done"
    /\ UNCHANGED <<uptime, dbHealth, emailHealth>>
    /\ UNCHANGED <<API_KEY, req, response, usersVars>>
    /\ UNCHANGED <<primaryVars, workerVars>>

\* health.routes.js:76: await emailHealthCheck() resolves.
HealthEmailChecked ==
    /\ healthPc = "dbChecked"
    /\ \E r \in EmailResults : emailHealth' = r
    /\ healthPc' = "emailChecked"
    /\ UNCHANGED <<uptime, dbHealth, healthReply>>
    /\ UNCHANGED <<API_KEY, req, response, usersVars>>
    /\ UNCHANGED <<primaryVars, workerVars>>

\* health.routes.js:79-133: the status is worked out and the body sent.
HealthRespond ==
    /\ healthPc = "emailChecked"
    /\ healthReply' =
          LET o == overallStatus(dbHealth, emailHealth)
          IN  [code |-> o.statusCode,
               status |-> o.overallStatus,
               message |-> getHealthMessage(o.overallStatus),
               uptime |-> formatUptime(uptime),
               database |-> serviceEntry(dbHealth),
               email |-> serviceEntry(emailHealth)]
    /\ healthPc' = "done"
    /\ UNCHANGED <<uptime, dbHealth, emailHealth>>
    /\ UNCHANGED <<API_KEY, req, response, usersVars>>
    /\ UNCHANGED <<primaryVars, workerVars>>

HealthNext ==
    \/ HealthDbChecked
    \/ HealthCheckThrows
    \/ HealthEmailChecked
    \/ HealthRespond

HealthSpec == HealthSpecInit /\ [][HealthNext]_vars

\* ---------------------------------------------------------------------
\* One POST / of the users router (src/routes/health.routes.js:541-567)
\* ---------------------------------------------------------------------

\* errors.join(', ')
RECURSIVE Join(_)
Join(errors) ==
    IF errors = <<>> THEN ""
    ELSE IF Len(errors) = 1 THEN errors[1]
    ELSE errors[1] \o ", " \o Join(Tail(errors))

\* A rejected promise: the status and the message of its Error.
Rejected(status, message) ==
    [kind |-> "rejected", status |-> status, message |-> message]

\* req.body
UserDatas == [email : {"", "ann@example.com"}, first_name : {"", "Ann"}]

\* lead.service.js:17-18: what user.validate() returns.
Validations ==
    {[isValid |-> TRUE, errors |-> <<>>],
     [isValid |-> FALSE, errors |-> <<"Email is required">>],
     [isValid |-> FALSE,
      errors |-> <<"Email is required", "Name is required">>]}

\* lead.service.js:26: how repository.createUser settles: with the stored
\* user, or with an error, which may or may not carry a status.
RepositoryOutcomes(data) ==
    {[kind |-> "resolved", value |-> data]} \cup
    {Rejected(st, msg) :
        st \in {Undefined, Num(400), Num(404), Num(409), Num(500),
                Str("400")},
        msg \in {"Error creating user", "duplicate key value"}}

UsersSpecInit ==
    /\ PrimaryIdle
    /\ WorkerInit
    /\ NoApiRequest
    /\ NoHealthRequest
    /\ usersPc = "start"
    /\ userData \in UserDatas
    /\ createResult = NoResult
    /\ usersReply = NoReply

\* lead.service.js:14-31: createUser up to its await: the model is
\* validated; invalid data rejects with an error of status 400.
createUser ==
    /\ usersPc = "start"
    /\ \E validation \in Validations :
          IF ~validation.isValid
            THEN /\ createResult' =
                       Rejected(Num(400), "Invalid user data: "
                                            \o Join(validation.errors))
                 /\ usersPc' = "settled"
            ELSE /\ usersPc' = "repository"
                 /\ UNCHANGED createResult
    /\ UNCHANGED <<userData, usersReply>>
    /\ UNCHANGED <<API_KEY, req, response, healthVars>>
    /\ UNCHANGED <<primaryVars, workerVars>>

\* lead.service.js:26-30: the repository call settles; the catch block
\* logs an error and throws it again unchanged.
repositoryCreateUser ==
    /\ usersPc = "repository"
    /\ \E o \in RepositoryOutcomes(userData) : createResult' = o
    /\ usersPc' = "settled"
    /\ UNCHANGED <<userData, usersReply>>
    /\ UNCHANGED <<API_KEY, req, response, healthVars>>
    /\ UNCHANGED <<primaryVars, workerVars>>

\* health.routes.js:541-567: the answer of router.post('/') to a settled
\* createUser.
postUserReply(result) ==
    IF result.kind = "resolved"
      THEN [code |-> 201, body |-> result.value]
    ELSE IF result.status = Num(400)
      THEN [code |-> 400,
            body |-> [status |-> "error", code |-> 400,
                      message |-> result.message]]
    ELSE [code |-> 500,
          body |-> [status |-> "error", code |-> 500,
                    message |-> "Failed to create user",
                    details |-> result.message]]

\* health.routes.js:541-567: router.post('/') after its await.
postUser ==
    /\ usersPc = "settled"
    /\ usersReply' = postUserReply(createResult)
    /\ usersPc' = "done"
    /\ UNCHANGED <<userData, createResult>>
    /\ UNCHANGED <<API_KEY, req, response, healthVars>>
    /\ UNCHANGED <<primaryVars, workerVars>>

UsersNext ==
    \/ createUser
    \/ repositoryCreateUser
    \/ postUser

UsersSpec == UsersSpecInit /\ [][UsersNext]_vars

TypeOK ==
    /\ variant \in {"env", "cpu"}
    /\ sup \in {"boot", "up", "exit0", "exit1", "killed"}
    /\ fault \in {"none", "startFork", "handler"}
    /\ alive \subseteq workers
    /\ workers \subseteq 1..forks
    /\ DOMAIN termSent = 1..forks
    /\ DOMAIN killSent = 1..forks
    /\ timers \in 0..MaxSignals
    /\ nsig \in 0..MaxSignals

\* ---------------------------------------------------------------------
\* Properties
\* ---------------------------------------------------------------------

\* The number of worker processes that are running.
Live == Cardinality(alive)

\* The primary restarts dead workers: production mode of part_000, and
\* part_001.
RestartingPrimary == variant = "cpu" \/ NODE_ENV = "production"

\* C1: in the environment-based supervisor, once a SIGTERM has been
\* received (phase draining or stopped) no step forks a worker, whatever
\* NODE_ENV is.
C1_NoForkAfterSignal ==
    [][(variant = "env" /\ Phase # "running") => forks' = forks]_vars

\* C2 as stated: for every supervisor and mode, while no SIGTERM has been
\* received, a live count below the target eventually returns to the target
\* (or a SIGTERM arrives first).
C2_ConvergesEveryMode ==
    (sup = "up" /\ nsig = 0 /\ Live < numWorkers)
        ~> (Live = numWorkers \/ nsig > 0)

\* C2 amended: the same convergence, for the production mode of the
\* environment-based supervisor and for the per-CPU supervisor.
C2_Converges ==
    (RestartingPrimary /\ sup = "up" /\ nsig = 0 /\ Live < numWorkers)
        ~> (Live = numWorkers \/ nsig > 0)

\* C2 witness: a replacement has brought the live count back to the target
\* while no SIGTERM was received.
C2_Witness ==
    /\ RestartingPrimary
    /\ sup = "up"
    /\ nsig = 0
    /\ exitsRunning > 0
    /\ Live = numWorkers

\* C3: a SIGTERM received when one was received before sends no further
\* SIGTERM to any worker, schedules no further timer and leaves the phase
\* as it is.
C3_SecondSignalIgnored ==
    [][(variant = "env" /\ nsig >= 1 /\ nsig' = nsig + 1)
         => (termSent' = termSent /\ timers' = timers /\ Phase' = Phase)]_vars

\* C4 as stated: when the environment-based supervisor has exited, no
\* worker it forked is still running.
C4_ExitedOnlyAfterWorkers ==
    (variant = "env" /\ sup = "exit0") => alive = {}

\* C4 amended: when the environment-based supervisor has exited, every
\* worker that is still running has been sent SIGKILL.
C4_ExitedOnlyAfterKill ==
    (variant = "env" /\ sup = "exit0") => \A w \in alive : killSent[w] >= 1

\* C4 witness: the supervisor has exited and a worker it killed is still
\* running.
C4_Witness ==
    /\ variant = "env"
    /\ sup = "exit0"
    /\ \E w \in alive : killSent[w] >= 1

\* C5: no worker is ever sent SIGKILL more than once, and when the drain
\* timer has fired every worker that was still registered (so every worker
\* that was still running) has been sent SIGKILL exactly once, however many
\* SIGTERMs the supervisor received.
C5_KillExactlyOnce ==
    /\ \A w \in DOMAIN killSent : killSent[w] <= 1
    /\ (variant = "env" /\ sup = "exit0") =>
          \A w \in workers : killSent[w] = 1

\* C5 witness: the drain timer fired after two SIGTERMs and a running
\* worker, signalled twice, got its one SIGKILL.
C5_Witness ==
    /\ variant = "env"
    /\ sup = "exit0"
    /\ nsig >= 2
    /\ \E w \in alive : termSent[w] >= 2 /\ killSent[w] = 1

\* C6: once a SIGTERM was received and every worker has terminated of its
\* own accord after the graceful signal (none was sent SIGKILL) and had its
\* exit handled, the supervisor is stopped: the last exit stops it, no
\* timer is waited for.
C6_StopsOnLastExit ==
    (/\ variant = "env"
     /\ nsig > 0
     /\ workers = {}
     /\ graceful = 1..forks
     /\ \A w \in DOMAIN killSent : killSent[w] = 0)
        => sup = "exit0"

\* C7: after a SIGTERM the environment-based supervisor eventually exits
\* with code 0, also when a worker never exits.
C7_EventuallyStopped ==
    (variant = "env" /\ nsig > 0) ~> (sup = "exit0")

\* C7 witness: the supervisor has exited with code 0 while a worker that
\* was sent SIGTERM never exited and is still running, killed by the timer.
C7_Witness ==
    /\ variant = "env"
    /\ sup = "exit0"
    /\ nsig > 0
    /\ \E w \in alive : w <= numWorkers /\ termSent[w] >= 1 /\ killSent[w] = 1

\* C8: the step that receives a SIGTERM sends SIGTERM to every worker
\* running at that moment, and no SIGKILL has been sent to any worker by
\* then.
C8_GracefulBroadcast ==
    [][(variant = "env" /\ nsig' = nsig + 1)
         => /\ \A w \in alive : termSent'[w] = termSent[w] + 1
            /\ \A w \in DOMAIN killSent' : killSent'[w] = 0]_vars

\* C8 witness: two workers were running when the SIGTERM came and both
\* have been sent SIGTERM, none SIGKILL.
C8_Witness ==
    /\ variant = "env"
    /\ sup = "up"
    /\ nsig = 1
    /\ Live >= 2
    /\ \A w \in alive : termSent[w] = 1 /\ killSent[w] = 0

\* C9: the phase of the environment-based supervisor starts as running,
\* moves only running -> draining and draining -> stopped, stays stopped,
\* and once it has left running no replacement is forked.
C9_PhaseForward ==
    /\ Phase = "running"
    /\ [][variant = "env" =>
            /\ Phase = "running" => Phase' \in {"running", "draining"}
            /\ Phase = "draining" => Phase' \in {"draining", "stopped"}
            /\ Phase = "stopped" => Phase' = "stopped"
            /\ Phase # "running" => forks' = forks]_vars

\* C10 as stated: for every supervisor and mode, while no SIGTERM has been
\* received the forks made are the target count plus one per exit handled.
C10_OneForOneEveryMode ==
    (sup = "up" /\ nsig = 0) => forks = numWorkers + exitsRunning

\* C10 amended: the same count, for the production mode of the
\* environment-based supervisor and for the per-CPU supervisor.
C10_OneForOne ==
    (RestartingPrimary /\ sup = "up" /\ nsig = 0)
        => forks = numWorkers + exitsRunning

\* C10 witness: two exits were handled while running and two replacements
\* forked.
C10_Witness ==
    /\ RestartingPrimary
    /\ sup = "up"
    /\ nsig = 0
    /\ exitsRunning = 2
    /\ forks = numWorkers + 2

\* C11: the step that completes the start loop leaves exactly the target
\* number of worker handles registered, all of them running, with that many
\* forks made and the phase running.
C11_StartForksTarget ==
    [][(sup = "boot" /\ sup' = "up")
         => /\ Cardinality(workers') = numWorkers
            /\ alive' = workers'
            /\ forks' = numWorkers
            /\ Phase' = "running"]_vars

\* C11 witness: right after the start loop with target 2: two handles are
\* registered and running, no exit was handled, no signal received.
C11_Witness ==
    /\ sup = "up"
    /\ numWorkers = 2
    /\ workers = {1, 2}
    /\ alive = {1, 2}
    /\ forks = 2
    /\ exitsRunning = 0
    /\ nsig = 0

\* C12: a step in which an error is raised inside the 'exit' handler
\* leaves the supervisor alive and in the phase it was in.
C12_HandlerSwallowsErrors ==
    [][(fault # "handler" /\ fault' = "handler")
         => (sup' = sup /\ Phase' = Phase)]_vars

\* C13: a step in which a fork of the start loop fails ends the supervisor
\* with exit code 1, and a step in which the drain timer fires (the
\* shutdown completes) ends it with exit code 0.
C13_ExitCodes ==
    [][/\ (fault = "none" /\ fault' = "startFork") => sup' = "exit1"
       /\ (sup = "up" /\ timers' < timers) => sup' = "exit0"]_vars

\* C13 witness: the second fork of the start loop failed and the
\* supervisor has ended with exit code 1.
C13_Witness ==
    /\ fault = "startFork"
    /\ sup = "exit1"
    /\ forks = 1

C15_AllCores ==
    [][(sup = "boot" /\ sup' = "up" /\ NODE_ENV = "production")
         => forks' = numCPUs]_vars

\* C16 as stated: when the drain timer callback runs, every worker that
\* terminated after the graceful signal has had its exit handled.
C16_ExitsHandledBeforeTimer ==
    [][(variant = "env" /\ sup = "up" /\ timers' < timers)
         => graceful \cap workers = {}]_vars

\* C16 amended: while a drain timer is pending the exit handler is never
\* blocked: for every worker whose exit is pending, the handler can run.
C16_HandlerRunsDuringDrain ==
    (variant = "env" /\ sup = "up" /\ timers > 0)
        => \A w \in workers \ alive : ENABLED OnWorkerExit(w)

\* C16 witness: a drain timer is pending and the exit of a worker that
\* terminated after the graceful signal has been handled already.
C16_Witness ==
    /\ variant = "env"
    /\ sup = "up"
    /\ timers > 0
    /\ graceful # {}
    /\ graceful \cap workers = {}

\* C17: every handle that a step registers or starts is one that no fork
\* produced before, and a handle that is not running never runs again.
C17_HandlesNeverReused ==
    [][/\ \A w \in (workers' \ workers) \cup (alive' \ alive) :
              w \notin 1..forks
       /\ \A w \in (1..forks) \ alive : w \notin alive']_vars

\* C17 witness: an initial worker has exited and been removed, and the
\* replacement runs under a new identity.
C17_Witness ==
    /\ sup = "up"
    /\ forks > numWorkers
    /\ forks \in alive
    /\ \E w \in 1..numWorkers : w \notin workers

\* C18: in the per-CPU supervisor every handled exit event forks exactly
\* one worker, whatever NODE_ENV is and however many exits came before, and
\* while the primary is up the handler of a pending exit can always run.
C18_CpuAlwaysRestarts ==
    /\ [][(variant = "cpu" /\ sup = "up" /\ workers' # workers)
            => forks' = forks + 1]_vars
    /\ [](variant = "cpu" /\ sup = "up"
            => \A w \in workers \ alive : ENABLED OnWorkerExit(w))

\* C18 witness: the per-CPU supervisor, NODE_ENV 'development', has
\* handled two exits and forked two replacements.
C18_Witness ==
    /\ variant = "cpu"
    /\ NODE_ENV = "development"
    /\ sup = "up"
    /\ exitsRunning = 2
    /\ forks = numCPUs + 2

SuppliesValidKey ==
    \/ (req.header.kind = "string" /\ req.header = API_KEY)
    \/ (req.query.kind = "string" /\ req.query = API_KEY)

\* C20: a request is handled by the projects router only if a supplied key
\* equals the configured API_KEY; with API_KEY configured, a request to the
\* projects route that supplies no matching key is answered with 401; with
\* API_KEY not configured it is answered with 500; requests to the health
\* and contact routes reach their routers whatever the keys are.
C20_ApiKeyAuth ==
    /\ response = "projects" => SuppliesValidKey
    /\ (req.route = "projects" /\ response # "pending")
          => /\ (Truthy(API_KEY) /\ ~SuppliesValidKey) => response = "401"
             /\ ~Truthy(API_KEY) => response = "500"
    /\ (req.route \in {"health", "contact"} /\ response # "pending")
          => response = req.route

\* C23: in either supervisor the number of running workers never exceeds
\* the target count, and a step that forks is either the start loop (which
\* forks the target count) or the handling of one exit event (which forks
\* one worker and takes the dead one off the register).
C23_LiveAtMostTarget ==
    /\ [](Live <= numWorkers)
    /\ [](Cardinality(workers) <= numWorkers)
    /\ [][forks' # forks =>
            \/ (sup = "boot" /\ forks = 0 /\ forks' = numWorkers)
            \/ /\ forks' = forks + 1
               /\ \E w \in workers \ alive :
                     /\ workers' = (workers \ {w}) \cup {forks'}
                     /\ alive' = alive \cup {forks'}]_vars

\* C23 witness: two workers died one after the other, each was replaced,
\* and the live count is at the target again.
C23_Witness ==
    /\ sup = "up"
    /\ forks >= numWorkers + 2
    /\ Live = numWorkers

\* C24 as stated: the environment-based supervisor outside production has
\* forked exactly one worker once started and, as long as no SIGTERM was
\* received, is up.
C24_StaysUpUntilSignal ==
    (variant = "env" /\ isDevelopment /\ sup # "boot")
        => (forks = 1 /\ (nsig = 0 => sup = "up"))

\* C24 amended: the environment-based supervisor outside production forks
\* exactly one worker, in the start loop, and its exit handler forks none;
\* once the exit of that worker is handled no worker is running, and the
\* supervisor, left without any handle, ends with exit code 0: without a
\* SIGTERM it ends only after the exit of its worker was handled.
C24_DevNeverRestarts ==
    /\ []((variant = "env" /\ isDevelopment /\ sup # "boot") => forks = 1)
    /\ [][(variant = "env" /\ isDevelopment /\ sup # "boot")
            => forks' = forks]_vars
    /\ []((variant = "env" /\ isDevelopment /\ sup # "boot" /\ workers = {})
            => alive = {})
    /\ []((variant = "env" /\ isDevelopment /\ nsig = 0 /\ sup # "boot")
            => (sup \in {"up", "exit0"} /\ (sup = "exit0" => workers = {})))
    /\ (variant = "env" /\ isDevelopment /\ sup = "up" /\ workers = {})
          ~> (sup = "exit0")

\* C24 witness: the one worker died, its exit was handled without a fork,
\* and the supervisor ended with code 0 though no SIGTERM was received.
C24_Witness ==
    /\ variant = "env"
    /\ isDevelopment
    /\ nsig = 0
    /\ exitsRunning = 1
    /\ forks = 1
    /\ workers = {}
    /\ sup = "exit0"

\* The workers the production supervisor forked as replacements after its
\* first SIGTERM: before it, the start loop and every handled exit forked
\* one worker each.
LateReplacements ==
    IF nsig = 0 THEN {} ELSE (numWorkers + exitsRunning + 1)..forks

\* C25: in the environment-based supervisor in production, the supervisor
\* sends SIGTERM only in the step that receives a termination signal, a
\* worker starts with no signal sent to it, so a replacement forked after
\* the first broadcast has been sent one SIGTERM less than the supervisor
\* received signals (none if there was one signal); and the drain timer
\* sends SIGKILL to every worker that is running when it fires.
C25_LateReplacementKilledOnly ==
    /\ [][(variant = "env" /\ ~isDevelopment) =>
            /\ \A w \in DOMAIN termSent :
                  termSent'[w] # termSent[w] => nsig' = nsig + 1
            /\ \A w \in (DOMAIN termSent') \ (DOMAIN termSent) :
                  termSent'[w] = 0 /\ killSent'[w] = 0]_vars
    /\ []((variant = "env" /\ ~isDevelopment) =>
            \A w \in LateReplacements : termSent[w] <= nsig - 1)
    /\ [][(variant = "env" /\ ~isDevelopment /\ timers' < timers) =>
            \A w \in alive : killSent'[w] = killSent[w] + 1]_vars

\* C25 witness: in production a worker forked after the broadcast is
\* running, was never sent SIGTERM and has been sent SIGKILL.
C25_Witness ==
    /\ variant = "env"
    /\ ~isDevelopment
    /\ nsig = 1
    /\ \E w \in LateReplacements \cap alive :
          termSent[w] = 0 /\ killSent[w] = 1

\* C26: while the supervisor is in phase running no signal has been sent
\* to any worker, and a step that sends SIGKILL is the firing of a drain
\* timer: a SIGTERM was received before it, a pending timer is consumed
\* and the supervisor exits in the same step.
C26_SignalsOnlyWhenDraining ==
    /\ [](Phase = "running" =>
            \A w \in DOMAIN termSent : termSent[w] = 0 /\ killSent[w] = 0)
    /\ [][(\E w \in DOMAIN killSent : killSent'[w] # killSent[w]) =>
            /\ nsig > 0
            /\ nsig' = nsig
            /\ timers > 0
            /\ timers' = timers - 1
            /\ sup' = "exit0"]_vars

\* C26 witness: a worker that ignored the SIGTERM of the broadcast was
\* sent SIGKILL by the drain timer.
C26_Witness ==
    /\ variant = "env"
    /\ nsig = 1
    /\ timers = 0
    /\ sup = "exit0"
    /\ \E w \in alive : termSent[w] = 1 /\ killSent[w] = 1

\* C21: when userService.createUser has rejected, POST / of the users
\* router has answered with status 400.
C21_CreateFailureIs400 ==
    (usersPc = "done" /\ createResult.kind = "rejected")
        => usersReply.code = 400

\* The database check and the email check of the request both resolved.
ChecksResolved == dbHealth # NoResult /\ emailHealth # NoResult

\* The number of the two checks that resolved healthy.
HealthyChecks ==
    (IF dbHealth.healthy THEN 1 ELSE 0)
        + (IF emailHealth.healthy THEN 1 ELSE 0)

\* C22: an answered GET / of the health router reports 'healthy' with 200
\* exactly when both checks are healthy, 'degraded' with 200 exactly when
\* exactly one is, 'unhealthy' with 503 exactly when neither is or a check
\* threw; there is no other answer.
C22_HealthStatus ==
    healthPc = "done" =>
        /\ (healthReply.status = "healthy" /\ healthReply.code = 200)
              <=> (ChecksResolved /\ HealthyChecks = 2)
        /\ (healthReply.status = "degraded" /\ healthReply.code = 200)
              <=> (ChecksResolved /\ HealthyChecks = 1)
        /\ (healthReply.status = "unhealthy" /\ healthReply.code = 503)
              <=> (~ChecksResolved \/ HealthyChecks = 0)
        /\ <<healthReply.status, healthReply.code>> \in
              {<<"healthy", 200>>, <<"degraded", 200>>, <<"unhealthy", 503>>}

\* C22 witness: the database check failed, the email check passed, and the
\* answer is 'degraded' with 200.
C22_Witness ==
    /\ healthPc = "done"
    /\ ChecksResolved
    /\ ~dbHealth.healthy
    /\ emailHealth.healthy
    /\ healthReply.status = "degraded"
    /\ healthReply.code = 200
    /\ healthReply.uptime = "1d 1h 1m 1s"
====
